---- MODULE Spec2Model ----
(***************************************************************************)
(* A model of the orchestration logic of mport's command-line front end:   *)
(*   - src/mport/mport.c: main's batch loop over "install" specifiers,     *)
(*     install() (the name-version fallback and the interactive choice)    *)
(*     and deleteAll() (dependency-ordered bulk removal);                  *)
(*   - src/libexec/mport.list/mport.list.c: the update listing (-u).       *)
(* The package store (libmport) is the environment: its answers are drawn  *)
(* nondeterministically where the front end cannot know them.              *)
(***************************************************************************)
EXTENDS Integers, Sequences, FiniteSets, TLC

(***************************************************************************)
(* Bounds of the model.                                                    *)
(***************************************************************************)
\* longest specifier given on the command line, in characters
MaxLen == 5
\* most index entries
MaxIndex == 2
\* most specifiers of one "install" invocation
MaxArgs == 2
\* number of packages that may be installed before deleteall
NPkgs == 2
\* the pass, total and error counters of deleteAll saturate here
MaxCount == 5
\* the count of re-prompt messages of one install saturates here
MaxPrompts == 2
\* number of distinct version strings (and os_release tags) of the update listing
MaxVer == 2
\* most installed packages of the update listing
MaxPacks == 2

(***************************************************************************)
(* Strings are sequences of characters.                                    *)
(***************************************************************************)
Chars == {"f", "-", "1"}

Strings(n) == UNION {[1..k -> Chars] : k \in 1..n}

Specifiers == Strings(MaxLen)

PkgNames == {<<"f">>, <<"f", "-", "1">>}

VersionStrs == {<<"1">>, <<"2">>}

IndexEntries == [pkgname : PkgNames, version : VersionStrs]

\* what a read through the vector's NULL terminator may yield
GarbageEntry == [pkgname |-> <<"?">>, version |-> <<"?">>]

NoEntry == [pkgname |-> <<>>, version |-> <<>>]

Range(s) == {s[k] : k \in 1..Len(s)}

\* sequences without repetition over S, of length at most n
Arrangements(S, n) ==
    {s \in UNION {[1..k -> S] : k \in 0..n} :
        \A a, b \in 1..Len(s) : a # b => s[a] # s[b]}

MPORT_OK == 0

MPORT_ERR_FATAL == 1

\* errx(4, "Package %s not found in the index.")
NotFoundExit == 4

\* a non-zero mport_err_code() / install result
StoreErrCode == 3

VARIABLES
    cmd,          \* argv[0]: "install" or "deleteall"
    argc,         \* number of words after the options, the command included
    i,            \* main's loop index over argv
    resultCode,   \* main's resultCode
    pc,           \* where the process is
    exitCode,     \* the process's exit status, once it has exited
    index,        \* the loaded index: a sequence of entries
    packageName,  \* install's argument
    indexEntry,   \* install's vector of matches (without its NULL terminator)
    scanret,      \* what the last scanf("%d", &choice) returned
    choice,       \* install's choice
    stdin,        \* "open", "stuck" (a non-numeric token is at the head), "eof"
    prompts,      \* "Please select an entry" messages of the current install
    results,      \* per specifier: what install did with it
    installed,    \* the store's installed packages
    installed0,   \* the packages installed when the command started
    deps,         \* <<a, b>>: installed package a depends on package b
    packs,        \* deleteAll's snapshot
    pos,          \* deleteAll's position in the snapshot (1-based)
    skip,         \* deleteAll's skip
    total,        \* deleteAll's total
    errors,       \* deleteAll's errors
    pass,         \* number of the current pass of deleteAll
    passDeleted,  \* packages removed from the store in the current pass
    delLog,       \* every successful delete: the package and the pass
    lastDel,      \* the last delete command: the package and its dependents then
    storeFail,    \* a store query of deleteAll has failed
    printed,      \* deleteAll's summary line, once printed
    lpc,          \* mport.list: where the process is
    lleft,        \* mport.list: packages of the snapshot not yet visited
    lk,           \* mport.list: number of the package being visited
    lpack,        \* mport.list: *packs, the package being visited
    lentries,     \* mport.list: the index entries found for its name
    lpos,         \* mport.list: position in lentries (1-based)
    sysrel,       \* mport.list: os_release of the running system
    lout,         \* mport.list: the lines printed
    lseen,        \* mport.list: per visited package, how many index entries it had
    nullcmp       \* mport.list: mport_version_cmp was given a NULL argument

vars == <<cmd, argc, i, resultCode, pc, exitCode, index, packageName, indexEntry,
          scanret, choice, stdin, prompts, results, installed, installed0, deps, packs,
          pos,
          skip, total, errors, pass, passDeleted, delLog, lastDel, storeFail, printed,
          lpc, lleft, lk, lpack, lentries, lpos, sysrel, lout, lseen, nullcmp>>

listVars == <<lpc, lleft, lk, lpack, lentries, lpos, sysrel, lout, lseen, nullcmp>>

installVars == <<packageName, indexEntry, scanret, choice, stdin, prompts, results>>

deleteVars == <<installed, installed0, deps, packs, pos, skip, total, errors, pass,
                passDeleted, delLog, lastDel, storeFail, printed>>

NoPrint == [deleted |-> -1, errors |-> -1, total |-> -1]

(***************************************************************************)
(* install(), src/mport/mport.c 584-644                                    *)
(***************************************************************************)
\* mport_index_lookup_pkgname through lookupIndex: the entries of that name,
\* in index order
lookupIndex(idx, name) == SelectSeq(idx, LAMBDA e : e.pkgname = name)

\* the scan for the last '-' (C index, -1 when there is none)
RECURSIVE ScanDash(_, _)
ScanDash(s, k) ==
    IF k < 0 THEN -1
    ELSE IF s[k + 1] = "-" THEN k
    ELSE ScanDash(s, k - 1)

FirstDashMut(s) ==
    LET hits == {k \in 0..(Len(s) - 1) : s[k + 1] = "-"}
    IN  IF hits = {} THEN -1 ELSE CHOOSE k \in hits : \A h \in hits : k <= h

LastDash(s) == ScanDash(s, Len(s) - 1)

FallbackAllowed(loc) == loc > 0

\* d after d[loc] = '\0'
NamePart(s, loc) == SubSeq(s, 1, loc)

\* v = &d[loc+1]
VersionPart(s, loc) == SubSeq(s, loc + 2, Len(s))

\* strcmp(v, (*indexEntry)->version) == 0
VersionMatches(v, e) == v = e.version

\* the condition of the prompt loop: r is scanf's return value
ChoiceRejected(r, c, item) == r < 1 \/ c > item \/ c < 0

\* the walk to the chosen entry: its 1-based place in the vector; place
\* Len(vec) + 1 is the NULL terminator
SelectedPlace(vec, c) == c + 1

Aggregate(rc, temp) == IF temp # 0 THEN temp ELSE rc

ItemNotFound == [kind |-> "notfound", entry |-> NoEntry, rc |-> NotFoundExit]

ItemLookupError == [kind |-> "lookuperror", entry |-> NoEntry, rc |-> StoreErrCode]

\* errx(): the process ends here, inside install
InstallErrx(item, code) ==
    /\ results' = Append(results, item)
    /\ exitCode' = code
    /\ pc' = "exit"
    /\ UNCHANGED <<i, resultCode, indexEntry, scanret, choice, stdin, prompts>>

\* a read through a NULL entry pointer ended the process
InstallCrash ==
    /\ pc' = "crash"
    /\ UNCHANGED <<i, resultCode, exitCode, indexEntry, scanret, choice, stdin,
                   prompts, results>>

\* lines 639-643, and main's lines 161-163 on return
InstallReturn(e, rc) ==
    /\ results' = Append(results, [kind |-> "installed", entry |-> e, rc |-> rc])
    /\ resultCode' = Aggregate(resultCode, rc)
    /\ i' = i + 1
    /\ pc' = "main"
    /\ indexEntry' = <<>>
    /\ scanret' = 0
    /\ choice' = 0
    /\ prompts' = 0
    /\ UNCHANGED <<exitCode, stdin>>

\* lines 618-626: one match goes on to the install call, several are listed
InstallProceed(vec) ==
    /\ indexEntry' = vec
    /\ pc' = IF Len(vec) > 1 THEN "prompt" ELSE "call"
    /\ UNCHANGED <<i, resultCode, exitCode, scanret, choice, stdin, prompts, results>>

\* main 155-158 and 368-369: usage() without a specifier, else exit(resultCode)
MainInstallExit ==
    /\ pc = "main" /\ cmd = "install" /\ i >= argc
    /\ exitCode' = IF argc = 1 THEN 1 ELSE resultCode
    /\ pc' = "exit"
    /\ UNCHANGED <<cmd, argc, i, resultCode, index>>
    /\ UNCHANGED <<installVars, deleteVars, listVars>>

\* main 160-161 with the next specifier of the batch, and install 592-616
InstallResolve ==
    /\ pc = "main" /\ cmd = "install" /\ i < argc
    /\ \E s \in Specifiers, lookupOk \in BOOLEAN :
        LET first == lookupIndex(index, s)
            loc == LastDash(s)
            second == lookupIndex(index, NamePart(s, loc))
        IN  /\ packageName' = s
            /\ IF ~lookupOk THEN InstallErrx(ItemLookupError, StoreErrCode)
               ELSE IF first # <<>> THEN InstallProceed(first)
               ELSE IF ~FallbackAllowed(loc) THEN InstallErrx(ItemNotFound, NotFoundExit)
               ELSE IF second = <<>>
               \* strcmp reads (*indexEntry)->version through a NULL entry
               THEN \/ InstallCrash
                    \/ InstallErrx(ItemNotFound, NotFoundExit)
               ELSE IF ~VersionMatches(VersionPart(s, loc), second[1])
               THEN InstallErrx(ItemNotFound, NotFoundExit)
               ELSE InstallProceed(second)
    /\ UNCHANGED <<cmd, argc, index>>
    /\ UNCHANGED <<deleteVars, listVars>>

\* what the operator may type next: a number, a non-numeric word, or end of input
Tokens ==
    [kind : {"num"}, val : -1..(MaxIndex + 1)]
        \cup {[kind |-> "word", val |-> 0], [kind |-> "eof", val |-> 0]}

\* scanf("%d", &choice): 1 with a number read, 0 at a non-numeric word (which
\* stays unread), EOF (-1) at the end of input
ScanfReturn(in, tok) ==
    IF in = "stuck" THEN 0
    ELSE IF in = "eof" THEN -1
    ELSE IF tok.kind = "word" THEN 0
    ELSE IF tok.kind = "eof" THEN -1
    ELSE 1

StdinAfter(in, tok) ==
    IF in # "open" THEN in
    ELSE IF tok.kind = "word" THEN "stuck"
    ELSE IF tok.kind = "eof" THEN "eof"
    ELSE "open"

\* one scanf("%d", &choice) of the loop at 627-629
InstallPrompt ==
    /\ pc = "prompt"
    /\ \E tok \in Tokens :
        LET r == ScanfReturn(stdin, tok)
            c == IF r = 1 THEN tok.val ELSE choice
        IN  /\ scanret' = r
            /\ choice' = c
            /\ stdin' = StdinAfter(stdin, tok)
            /\ IF ChoiceRejected(r, c, Len(indexEntry))
               THEN /\ prompts' = IF prompts < MaxPrompts THEN prompts + 1 ELSE prompts
                    /\ pc' = "prompt"
               ELSE /\ prompts' = prompts
                    /\ pc' = "select"
    /\ UNCHANGED <<cmd, argc, i, resultCode, exitCode, index, packageName, indexEntry,
                   results>>
    /\ UNCHANGED <<deleteVars, listVars>>

\* install 630-643 after a choice was accepted
InstallSelect ==
    /\ pc = "select"
    /\ LET place == SelectedPlace(indexEntry, choice)
       IN  IF place <= Len(indexEntry)
           THEN \E rc \in {MPORT_OK, StoreErrCode} :
                    InstallReturn(indexEntry[place], rc)
           \* *indexEntry is the NULL terminator
           ELSE \/ InstallCrash
                \/ \E rc \in {MPORT_OK, StoreErrCode} : InstallReturn(GarbageEntry, rc)
    /\ UNCHANGED <<cmd, argc, index, packageName>>
    /\ UNCHANGED <<deleteVars, listVars>>

\* install 639-643 with a single match
InstallCall ==
    /\ pc = "call"
    /\ \E rc \in {MPORT_OK, StoreErrCode} : InstallReturn(indexEntry[1], rc)
    /\ UNCHANGED <<cmd, argc, index, packageName>>
    /\ UNCHANGED <<deleteVars, listVars>>

(***************************************************************************)
(* deleteAll(), src/mport/mport.c 746-794                                  *)
(***************************************************************************)
Sat(n) == IF n > MaxCount THEN MaxCount ELSE n

\* the installed packages that depend on p, as the store has them
Dependents(p) == {q \in installed : <<q, p>> \in deps}

\* every order in which mport_pkgmeta_list may return the set S
Orders(S) == {s \in [1..Cardinality(S) -> S] : Range(s) = S}

\* mport_pkgmeta_get_updepends: the installed packages that depend on p
UpDepends(inst, d, p) == {q \in inst : <<q, p>> \in d}

RemovableMut(depends) == TRUE

\* line 768: depends == NULL
Removable(depends) == depends = {}

PassDoneMut(s) == TRUE

\* line 781: skip == 0
PassDone(s) == s = 0

\* line 792: what the summary prints
Summary(t, e) == [deleted |-> t - e, errors |-> e, total |-> t]

\* main 307 and 368-369: resultCode = deleteAll(mport); exit(resultCode)
DeleteAllReturn(code) ==
    /\ resultCode' = code
    /\ exitCode' = code
    /\ pc' = "exit"

\* lines 754-762
DeleteAllStart ==
    /\ pc = "main" /\ cmd = "deleteall"
    /\ \E listOk \in BOOLEAN :
        /\ storeFail' = (storeFail \/ ~listOk)
        /\ IF ~listOk \/ installed = {}
           THEN /\ DeleteAllReturn(1)
                /\ UNCHANGED <<packs, pass>>
           ELSE /\ \E snapshot \in Orders(installed) : packs' = snapshot
                /\ pass' = 1
                /\ pc' = "scan"
                /\ UNCHANGED <<resultCode, exitCode>>
    /\ UNCHANGED <<cmd, argc, i, index, installed, installed0, deps, pos, skip, total,
                   errors,
                   passDeleted, delLog, lastDel, printed>>
    /\ UNCHANGED <<installVars, listVars>>

\* lines 766-780: one package of the snapshot
DeleteAllStep ==
    /\ pc = "scan" /\ pos <= Len(packs)
    /\ LET p == packs[pos]
           depends == UpDepends(installed, deps, p)
       IN  \E queryOk \in BOOLEAN, deleteOk \in BOOLEAN :
            /\ storeFail' = (storeFail \/ ~queryOk)
            /\ IF ~queryOk
               THEN UNCHANGED <<installed, skip, total, errors, passDeleted, delLog,
                                lastDel>>
               ELSE IF Removable(depends)
               THEN /\ installed' = IF deleteOk THEN installed \ {p} ELSE installed
                    /\ errors' = IF deleteOk THEN errors ELSE Sat(errors + 1)
                    /\ total' = Sat(total + 1)
                    /\ passDeleted' = IF deleteOk THEN passDeleted + 1 ELSE passDeleted
                    /\ delLog' = IF deleteOk
                                 THEN Append(delLog,
                                             [pkg |-> p, pass |-> pass, at |-> pos])
                                 ELSE delLog
                    /\ lastDel' = [pkg |-> p, dependents |-> Dependents(p)]
                    /\ skip' = skip
               ELSE /\ skip' = skip + 1
                    /\ UNCHANGED <<installed, total, errors, passDeleted, delLog,
                                   lastDel>>
    /\ pos' = pos + 1
    /\ UNCHANGED <<cmd, argc, i, resultCode, pc, exitCode, index, installed0, deps,
                   packs, pass, printed>>
    /\ UNCHANGED <<installVars, listVars>>

\* lines 781-793: the end of a pass
DeleteAllPassEnd ==
    /\ pc = "scan" /\ pos > Len(packs)
    /\ IF PassDone(skip)
       THEN /\ printed' = Summary(total, errors)
            /\ DeleteAllReturn(0)
            /\ UNCHANGED <<packs, pos, skip, pass, passDeleted, storeFail>>
       ELSE \E listOk \in BOOLEAN :
            /\ storeFail' = (storeFail \/ ~listOk)
            /\ IF ~listOk
               THEN /\ DeleteAllReturn(1)
                    /\ UNCHANGED <<packs, pos, skip, pass, passDeleted, printed>>
               ELSE /\ \E snapshot \in Orders(installed) : packs' = snapshot
                    /\ pos' = 1
                    /\ skip' = 0
                    /\ pass' = Sat(pass + 1)
                    /\ passDeleted' = 0
                    /\ UNCHANGED <<resultCode, exitCode, pc, printed>>
    /\ UNCHANGED <<cmd, argc, i, index, installed, installed0, deps, total, errors,
                   delLog, lastDel>>
    /\ UNCHANGED <<installVars, listVars>>

(***************************************************************************)
(* main(), src/mport/mport.c 81-370: the state once the command is known   *)
(***************************************************************************)
NoDel == [pkg |-> 0, dependents |-> {}]

InitCommon ==
    /\ i = 1
    /\ resultCode = MPORT_ERR_FATAL
    /\ exitCode = -1
    /\ packageName = <<>>
    /\ indexEntry = <<>>
    /\ scanret = 0
    /\ choice = 0
    /\ stdin = "open"
    /\ prompts = 0
    /\ results = <<>>
    /\ packs = <<>>
    /\ pos = 1
    /\ skip = 0
    /\ total = 0
    /\ errors = 0
    /\ pass = 0
    /\ passDeleted = 0
    /\ delLog = <<>>
    /\ lastDel = NoDel
    /\ storeFail = FALSE
    /\ printed = NoPrint

InitInstall ==
    /\ cmd = "install"
    /\ argc \in 1..(MaxArgs + 1)
    /\ index \in Arrangements(IndexEntries, MaxIndex)
    /\ installed = {}
    /\ installed0 = {}
    /\ deps = {}

InitDeleteAll ==
    /\ cmd = "deleteall"
    /\ argc = 1
    /\ index = <<>>
    /\ \E n \in 0..NPkgs :
        /\ installed = 1..n
        /\ installed0 = 1..n
        /\ deps \in SUBSET {e \in (1..n) \X (1..n) : e[1] # e[2]}

(***************************************************************************)
(* mport.list -u, src/libexec/mport.list/mport.list.c 115-186              *)
(***************************************************************************)
\* an absent (NULL) string field
Null == 0

\* version strings and os_release tags are 1..MaxVer, ordered as numbers
VersionTags == 1..MaxVer

PackRecords == [version : {Null} \cup VersionTags, os_release : {Null} \cup VersionTags]

NoPack == [version |-> Null, os_release |-> Null]

\* mport_version_cmp on two present strings
version_cmp(a, b) == IF a < b THEN "lt" ELSE IF a = b THEN "eq" ELSE "gt"

\* what a call of mport_version_cmp may do; "none" stands for a call not made
CmpOutcomes(called, a, b) ==
    IF ~called THEN {"none"}
    ELSE IF a = Null \/ b = Null THEN {"lt", "eq", "gt", "crash"}
    ELSE {version_cmp(a, b)}

\* line 143: (*indexEntries)->version != NULL
FirstGuard(P, E) == E # Null

\* line 144: (*packs)->version != NULL
SecondGuard(P) == P.version # Null

LinesOf(k) == SelectSeq(lout, LAMBDA l : l.pack = k)

ListIdle ==
    /\ lpc = "off"
    /\ lleft = 0
    /\ lk = 0
    /\ lpack = NoPack
    /\ lentries = <<>>
    /\ lpos = 1
    /\ sysrel = 1
    /\ lout = <<>>
    /\ lseen = <<>>
    /\ nullcmp = FALSE

\* lines 115-126
ListStart ==
    /\ lpc = "start"
    /\ \E listOk \in BOOLEAN, n \in 0..MaxPacks :
        IF ~listOk THEN lpc' = "failed" /\ lleft' = lleft
        ELSE IF n = 0 THEN lpc' = "empty" /\ lleft' = lleft
        ELSE lpc' = "loop" /\ lleft' = n
    /\ UNCHANGED <<lk, lpack, lentries, lpos, sysrel, lout, lseen, nullcmp>>
    /\ UNCHANGED <<cmd, argc, i, resultCode, pc, exitCode, index, installVars, deleteVars>>

\* lines 128-141: the next package and the index entries of its name
ListNextPack ==
    /\ lpc = "loop" /\ lleft > 0
    /\ \E P \in PackRecords, lookupOk \in BOOLEAN,
          ents \in UNION {[1..n -> {Null} \cup VersionTags] : n \in 0..MaxIndex} :
        IF ~lookupOk
        THEN /\ lpc' = "failed"
             /\ UNCHANGED <<lleft, lk, lpack, lentries, lpos, lout, lseen>>
        ELSE /\ lk' = lk + 1
             /\ lseen' = Append(lseen, Len(ents))
             /\ lpos' = 1
             /\ IF ents = <<>>
                THEN /\ lout' = Append(lout, [pack |-> lk + 1, kind |-> "unavailable",
                                              entry |-> 0])
                     /\ lleft' = lleft - 1
                     /\ lpc' = "loop"
                     /\ UNCHANGED <<lpack, lentries>>
                ELSE /\ lout' = lout
                     /\ lleft' = lleft
                     /\ lpc' = "entries"
                     /\ lpack' = P
                     /\ lentries' = ents
    /\ UNCHANGED <<sysrel, nullcmp>>
    /\ UNCHANGED <<cmd, argc, i, resultCode, pc, exitCode, index, installVars, deleteVars>>

\* lines 142-155: one index entry, the condition evaluated left to right
ListEntry ==
    /\ lpc = "entries" /\ lpos <= Len(lentries)
    /\ LET E == lentries[lpos]
           call1 == FirstGuard(lpack, E)
       IN  \E v1 \in CmpOutcomes(call1, lpack.version, E) :
            LET call2 == v1 \notin {"lt", "crash"} /\ SecondGuard(lpack)
            IN  \E v2 \in CmpOutcomes(call2, lpack.os_release, sysrel) :
                 /\ nullcmp' = (nullcmp \/ (call1 /\ lpack.version = Null)
                                        \/ (call2 /\ lpack.os_release = Null))
                 /\ IF "crash" \in {v1, v2}
                    THEN lpc' = "crash" /\ UNCHANGED <<lout, lpos>>
                    ELSE /\ lpc' = lpc
                         /\ lpos' = lpos + 1
                         /\ lout' = IF "lt" \in {v1, v2}
                                    THEN Append(lout, [pack |-> lk, kind |-> "outdated",
                                                       entry |-> lpos])
                                    ELSE lout
    /\ UNCHANGED <<lleft, lk, lpack, lentries, sysrel, lseen>>
    /\ UNCHANGED <<cmd, argc, i, resultCode, pc, exitCode, index, installVars, deleteVars>>

\* lines 157-158 and 181: the package is done
ListPackDone ==
    /\ lpc = "entries" /\ lpos > Len(lentries)
    /\ lleft' = lleft - 1
    /\ lpc' = "loop"
    /\ lpack' = NoPack
    /\ lentries' = <<>>
    /\ lpos' = 1
    /\ UNCHANGED <<lk, sysrel, lout, lseen, nullcmp>>
    /\ UNCHANGED <<cmd, argc, i, resultCode, pc, exitCode, index, installVars, deleteVars>>

\* lines 184-186
ListExit ==
    /\ lpc = "loop" /\ lleft = 0
    /\ lpc' = "done"
    /\ UNCHANGED <<lleft, lk, lpack, lentries, lpos, sysrel, lout, lseen, nullcmp>>
    /\ UNCHANGED <<cmd, argc, i, resultCode, pc, exitCode, index, installVars, deleteVars>>

InitList ==
    /\ InitCommon
    /\ pc = "off"
    /\ cmd = "list"
    /\ argc = 1
    /\ index = <<>>
    /\ installed = {}
    /\ installed0 = {}
    /\ deps = {}
    /\ lpc = "start"
    /\ lleft = 0
    /\ lk = 0
    /\ lpack = NoPack
    /\ lentries = <<>>
    /\ lpos = 1
    /\ sysrel \in VersionTags
    /\ lout = <<>>
    /\ lseen = <<>>
    /\ nullcmp = FALSE

NextList ==
    \/ ListStart
    \/ ListNextPack
    \/ ListEntry
    \/ ListPackDone
    \/ ListExit

SpecList == InitList /\ [][NextList]_vars

(***************************************************************************)
(* Properties of deleteAll                                                 *)
(***************************************************************************)
\* some non-empty set of packages of inst in which every member has a dependent
HasCycle(inst, d) ==
    \E S \in SUBSET inst : S # {} /\ \A p \in S : \E q \in S : <<q, p>> \in d

\* the pass in which p was removed, 0 when it has not been
DelPass(p) ==
    IF \E k \in 1..Len(delLog) : delLog[k].pkg = p
    THEN delLog[CHOOSE k \in 1..Len(delLog) : delLog[k].pkg = p].pass
    ELSE 0

\* the place p had in the snapshot of the pass that removed it
DelAt(p) ==
    IF \E k \in 1..Len(delLog) : delLog[k].pkg = p
    THEN delLog[CHOOSE k \in 1..Len(delLog) : delLog[k].pkg = p].at
    ELSE 0

\* b is the one package that depends on a
OnlyDependent(a, b) == {q \in installed0 : <<q, a>> \in deps} = {b}

\* no store query and no delete command has failed so far
NoFailure == ~storeFail /\ errors = 0

\* C1: on an installed set with a dependency cycle (every store query
\* answering), a pass that ends with zero deletions while packages remain
\* installed is the last one: the operation aborts (UnremovableSet) instead of
\* fetching the list again for another pass.
C1_ZeroProgressPassAborts ==
    [][(/\ cmd = "deleteall" /\ pc = "scan" /\ pos > Len(packs)
        /\ HasCycle(installed, deps) /\ ~storeFail
        /\ passDeleted = 0 /\ installed # {}) => pc' # "scan"]_vars

\* C2: on an acyclic installed set, as long as no store query and no delete
\* command has failed, every pass that defers a package also removes one, the
\* passes number at most the packages, and deleteAll ends with nothing left
\* installed and a summary in which deleted + errors = total, deleted being the
\* number of packages actually removed.
C2_AcyclicRemovesAll ==
    (cmd = "deleteall" /\ ~HasCycle(installed0, deps) /\ NoFailure) =>
        /\ pass <= Cardinality(installed0)
        /\ (pc = "scan" /\ pos > Len(packs) /\ skip > 0) => passDeleted > 0
        /\ pc = "exit" =>
            /\ installed = {}
            /\ installed0 # {} =>
                /\ printed # NoPrint
                /\ printed.deleted + printed.errors = printed.total
                /\ printed.deleted = Cardinality(installed0)
                /\ Len(delLog) = Cardinality(installed0)

\* a chain of two packages was removed in two passes
C2_Witness ==
    /\ cmd = "deleteall" /\ pc = "exit" /\ NoFailure
    /\ installed0 = {1, 2} /\ deps = {<<2, 1>>}
    /\ installed = {} /\ pass = 2
    /\ printed = [deleted |-> 2, errors |-> 0, total |-> 2]

\* C3: whenever the delete command is invoked for a package, no package that is
\* installed at that moment depends on it.
C3_NoDependentAtDelete == lastDel.dependents = {}

\* a package that had a dependent was removed, after its dependent
C3_Witness ==
    /\ lastDel.pkg # 0
    /\ \E q \in installed0 : <<q, lastDel.pkg>> \in deps
    /\ lastDel.pkg \notin installed

\* C9 as stated: with no failure, a package with exactly one dependent is
\* removed on the pass after the one that removed its dependent, whatever the
\* order of the snapshot; {A, B} with B depending on A ends with B removed on
\* pass 1, A on pass 2 and the summary deleted 2, errors 0, total 2.
C9_NextPassExactly ==
    (cmd = "deleteall" /\ NoFailure) =>
        /\ \A a, b \in installed0 :
            (OnlyDependent(a, b) /\ DelPass(a) > 0) =>
                DelPass(b) > 0 /\ DelPass(a) = DelPass(b) + 1
        /\ (pc = "exit" /\ installed0 = {1, 2} /\ deps = {<<2, 1>>}) =>
            /\ DelPass(2) = 1 /\ DelPass(1) = 2
            /\ printed = [deleted |-> 2, errors |-> 0, total |-> 2]

\* C9 amended: with no failure, a package with exactly one dependent is removed
\* after its dependent, on the same pass (then later in that pass's snapshot)
\* or on the pass that follows, never earlier and never later; {A, B} with B
\* depending on A ends with B removed on pass 1, A on pass 1 or 2 and the
\* summary deleted 2, errors 0, total 2.
C9_SamePassOrNext ==
    (cmd = "deleteall" /\ NoFailure) =>
        /\ \A a, b \in installed0 :
            (OnlyDependent(a, b) /\ DelPass(a) > 0) =>
                /\ DelPass(b) > 0
                /\ DelPass(a) \in {DelPass(b), DelPass(b) + 1}
                /\ DelPass(a) = DelPass(b) => DelAt(a) > DelAt(b)
        /\ (pc = "exit" /\ installed0 = {1, 2} /\ deps = {<<2, 1>>}) =>
            /\ DelPass(2) = 1 /\ DelPass(1) \in {1, 2}
            /\ printed = [deleted |-> 2, errors |-> 0, total |-> 2]

\* B came first in the snapshot: both packages were removed on pass 1
C9_Witness ==
    /\ cmd = "deleteall" /\ pc = "exit" /\ NoFailure
    /\ installed0 = {1, 2} /\ deps = {<<2, 1>>}
    /\ DelPass(2) = 1 /\ DelPass(1) = 1 /\ DelAt(1) = 2
    /\ printed = [deleted |-> 2, errors |-> 0, total |-> 2]

(***************************************************************************)
(* Properties of install and of main's batch loop                          *)
(***************************************************************************)
Last(q) == q[Len(q)]

DashPlaces(s) == {k \in 1..Len(s) : s[k] = "-"}

\* the place (1-based) of the rightmost '-' of s, 0 when s has none
RightmostDash(s) ==
    IF DashPlaces(s) = {} THEN 0
    ELSE CHOOSE k \in DashPlaces(s) : \A h \in DashPlaces(s) : h <= k

NameOf(s) == SubSeq(s, 1, RightmostDash(s) - 1)

VersionOf(s) == SubSeq(s, RightmostDash(s) + 1, Len(s))

EntriesNamed(n) == SelectSeq(index, LAMBDA e : e.pkgname = n)

\* s has no entry of its own, splits at a '-' that is not its first character,
\* and the index holds exactly one entry for the name part
FallbackCase(s) ==
    /\ s # <<>>
    /\ EntriesNamed(s) = <<>>
    /\ RightmostDash(s) > 1
    /\ Len(EntriesNamed(NameOf(s))) = 1

\* C4: with N > 1 matches listed, an input k in 0..N-1 ends the prompt and the
\* k-th entry (0-based) is the one installed; any other input (N, -1, a word,
\* the end of input) keeps the prompt and changes nothing but the input read.
C4_ChoiceSelectsOrReprompts ==
    [][/\ pc = "prompt" =>
            IF scanret' = 1 /\ choice' \in 0..(Len(indexEntry) - 1)
            THEN pc' = "select"
            ELSE /\ pc' = "prompt"
                 /\ UNCHANGED <<results, resultCode, i, index, indexEntry, exitCode>>
       /\ pc = "select" =>
            /\ choice \in 0..(Len(indexEntry) - 1)
            /\ pc' = "main"
            /\ Last(results').kind = "installed"
            /\ Last(results').entry = indexEntry[choice + 1]]_vars

\* C5: when a specifier has no entry of its own and the index holds one entry
\* for the part before its rightmost '-', install goes on to request the
\* installation of that entry exactly when the entry's version equals the part
\* after the '-', and ends with "not found" exactly when it differs.
C5_FallbackMatchesVersion ==
    (cmd = "install" /\ FallbackCase(packageName)) =>
        LET e == EntriesNamed(NameOf(packageName))[1]
        IN  /\ pc = "call" => (e.version = VersionOf(packageName) /\ indexEntry = <<e>>)
            /\ (pc = "main" /\ Len(results) = i - 1 /\ i > 1) =>
                /\ e.version = VersionOf(packageName)
                /\ Last(results).kind = "installed"
                /\ Last(results).entry = e
            /\ (pc = "exit" /\ Len(results) = i) =>
                /\ Last(results).kind \in {"notfound", "lookuperror"}
                /\ Last(results).kind = "notfound" => e.version # VersionOf(packageName)
            /\ pc \notin {"prompt", "select", "crash"}

\* "f-1-1" was resolved to the entry f-1 of version 1 and installed
C5_Witness ==
    /\ cmd = "install" /\ pc = "main"
    /\ packageName = <<"f", "-", "1", "-", "1">>
    /\ FallbackCase(packageName)
    /\ results # <<>>
    /\ Last(results).kind = "installed"
    /\ Last(results).entry = [pkgname |-> <<"f", "-", "1">>, version |-> <<"1">>]

\* C7: a specifier that is not found ends only its own install: when the
\* process exits, install has been attempted for every specifier of the batch.
C7_NotFoundContinues ==
    (cmd = "install" /\ pc = "exit"
        /\ \E k \in 1..Len(results) : results[k].kind = "notfound")
    => Len(results) = argc - 1

\* C8: the exit status of a batch is non-zero exactly when an item failed: for
\* install, when some specifier was not found, could not be looked up or was
\* installed with a non-zero result; for deleteall, a failed deletion makes it
\* non-zero.
C8_ExitCodeReflectsFailures ==
    pc = "exit" =>
        /\ (cmd = "install" /\ argc > 1) =>
            (exitCode # 0 <=> \E k \in 1..Len(results) : results[k].rc # 0)
        /\ (cmd = "deleteall" /\ errors > 0) => exitCode # 0

\* s has no entry of its own, splits at a '-' that is not its first character,
\* and the index has no entry for the name part either
BothLookupsEmpty(s) ==
    /\ s # <<>>
    /\ EntriesNamed(s) = <<>>
    /\ RightmostDash(s) > 1
    /\ EntriesNamed(NameOf(s)) = <<>>

\* C11: when the verbatim lookup and the lookup by the part before the
\* rightmost '-' both return no entry, install ends with the "not found" error
\* (exit status 4) unless a lookup itself failed: no entry is read and no
\* installation is requested.
C11_BothEmptyIsNotFound ==
    (cmd = "install" /\ BothLookupsEmpty(packageName)) =>
        /\ pc = "exit"
        /\ Len(results) = i
        /\ Last(results).kind \in {"notfound", "lookuperror"}
        /\ Last(results).kind = "notfound" => exitCode = NotFoundExit

(***************************************************************************)
(* Properties of the update listing                                        *)
(***************************************************************************)
HasLine(k, j) ==
    \E n \in 1..Len(lout) :
        lout[n].pack = k /\ lout[n].kind = "outdated" /\ lout[n].entry = j

\* the installed package is older than the entry, or was built for an older
\* release than the running system; a comparison with an absent string is skipped
Outdated(P, E) ==
    \/ (P.version # Null /\ E # Null /\ version_cmp(P.version, E) = "lt")
    \/ (P.os_release # Null /\ version_cmp(P.os_release, sysrel) = "lt")

\* C6: every entry already examined for the package being visited has a line
\* exactly when the package is outdated against it, and a visited package has
\* one "no longer available" line and nothing else when the index has no entry
\* of its name, and no such line otherwise.
C6_LinesIffOutdated ==
    /\ lpc = "entries" =>
        \A j \in 1..(lpos - 1) : HasLine(lk, j) <=> Outdated(lpack, lentries[j])
    /\ \A k \in 1..Len(lseen) :
        IF lseen[k] = 0
        THEN LinesOf(k) = <<[pack |-> k, kind |-> "unavailable", entry |-> 0]>>
        ELSE \A n \in 1..Len(lout) : lout[n].pack = k => lout[n].kind = "outdated"

\* C10: mport_version_cmp is never called with an absent argument.
C10_NoNullComparison == ~nullcmp

Init == InitCommon /\ pc = "main" /\ ListIdle /\ (InitInstall \/ InitDeleteAll)

Next ==
    \/ MainInstallExit
    \/ InstallResolve
    \/ InstallPrompt
    \/ InstallSelect
    \/ InstallCall
    \/ DeleteAllStart
    \/ DeleteAllStep
    \/ DeleteAllPassEnd

Spec == Init /\ [][Next]_vars

\* the operator types a listed number and scanf reads it
ValidChoiceRead ==
    /\ InstallPrompt
    /\ scanret' = 1
    /\ choice' \in 0..(Len(indexEntry) - 1)

\* the process keeps running, and an operator who is asked again and again
\* ends up typing a listed number (only finitely many invalid entries)
SpecLive == Init /\ [][Next]_vars /\ WF_vars(Next) /\ SF_vars(ValidChoiceRead)

\* C12: at the prompt, with an operator who types a listed number after
\* finitely many invalid entries (numbers out of range or non-numeric words)
\* and does not close the input, the prompt loop eventually ends.
C12_PromptEventuallyEnds ==
    (cmd = "install" /\ pc = "prompt") ~> (pc # "prompt" \/ stdin = "eof")

\* C13: on an acyclic installed set, with every store query answering,
\* deleteAll ends after finitely many passes even when the delete command
\* fails, every time it is tried, for some packages.
C13_EndsDespiteFailedDeletes ==
    (cmd = "deleteall" /\ pc = "main" /\ ~HasCycle(installed0, deps))
        ~> (pc = "exit" \/ storeFail)

\* s has no entry of its own and splits at a '-' that is not its first character
ViaFallback(s) ==
    /\ s # <<>>
    /\ EntriesNamed(s) = <<>>
    /\ RightmostDash(s) > 1

\* C14: an installation requested for a specifier resolved through the
\* name-version fallback installs an entry (of the index) whose version is the
\* one embedded in the specifier, however many entries the index holds for the
\* name and whichever of them the operator chooses.
C14_FallbackInstallsAskedVersion ==
    (/\ cmd = "install" /\ pc = "main" /\ i > 1 /\ Len(results) = i - 1
     /\ ViaFallback(packageName)
     /\ Last(results).kind = "installed"
     /\ \E k \in 1..Len(index) : index[k] = Last(results).entry)
    => Last(results).entry.version = VersionOf(packageName)

====
